---- MODULE Spec2Model ----
(***************************************************************************)
(* Model of the coupon scraper (src/app/app17.py, with the grid splitter   *)
(* of src/app/app14.py and src/app/app15.py and the retrying get_page of   *)
(* src/app/app12.py, src/app/app14.py and src/app/app11.py).               *)
(*                                                                         *)
(* A Python str is modelled as a sequence of one-character strings, so     *)
(* that the regular expressions of the code are computed character by      *)
(* character.  Page metadata that the code never inspects (urls, file      *)
(* names, article names) are plain strings.                                *)
(***************************************************************************)
EXTENDS Integers, Sequences, FiniteSets, TLC

VARIABLES
    \* --- parse_coupon_data applied to one OCR text (SpecParse) ---
    text,           \* the text argument
    is_hot_buy,     \* the is_hot_buy argument
    known_brands,   \* the known_brands argument (a set of brand strings)
    blocks,         \* the blocks re.split cut the text into
    data,           \* the list parse_coupon_data returned
    reseg,          \* a block of the text and the blocks it is cut into in turn
    env,            \* what the environment answered during the call: the order
                    \* in which the set known_brands was enumerated and the
                    \* answers of the fuzzy matcher
    again,          \* a second call of parse_coupon_data: its text, blocks, data
    parse_pc,       \* "input", "returned", then "resegmented", "reordered"
                    \* or "other"
    \* --- split_grid_image_dynamic applied to one image (SpecGrid) ---
    img_size,       \* <<width, height>> of the image
    v_peaks,        \* column indices flagged by the edge projection
    h_peaks,        \* row indices flagged by the edge projection
    boxes,          \* the crop boxes of the returned sub-images
    grid_pc,        \* "input", "app14" or "app15": which variant has run
    \* --- main() of app17.py (Spec) ---
    tesseract_ok,   \* whether pytesseract finds a working Tesseract
    pc,             \* position of main()
    stack,          \* call stack of scrape_images_from_page frames
    ret,            \* value returned by the last finished outermost call
    fetched,        \* page urls requested by get_page, in order
    downloaded,     \* image requests issued by download_image, in order
    ocr_calls,      \* images handed to pytesseract, in order
    parse_calls,    \* images whose text was handed to parse_coupon_data
    files,          \* Excel files written by save_to_excel
    \* --- get_page with retries, called for one url (SpecFetch) ---
    server,         \* what the n-th HTTP request for the url comes to
    fetch_fn,       \* "none", or the get_page that was called: "app12", "app14", "app11"
    fetch_pc,       \* "call", "try" (about to issue a request) or "returned"
    attempt,        \* the loop variable attempt (app12, app11), retry_count (app14)
    sent,           \* the number of HTTP requests issued so far
    result          \* the value get_page returned

parseVars == <<text, is_hot_buy, known_brands, blocks, data, reseg, env, again, parse_pc>>
gridVars  == <<img_size, v_peaks, h_peaks, boxes, grid_pc>>
mainVars  == <<tesseract_ok, pc, stack, ret, fetched, downloaded, ocr_calls, parse_calls, files>>
fetchVars == <<server, fetch_fn, fetch_pc, attempt, sent, result>>
vars      == <<parseVars, gridVars, mainVars, fetchVars>>

----------------------------------------------------------------------------
(***************************************************************************)
(* Characters and character classes of Python's re module (ASCII part).    *)
(***************************************************************************)
Digits == {"0", "1", "2", "3", "4", "5", "6", "7", "8", "9"}

UpperSeq == <<"A", "B", "C", "D", "E", "F", "G", "H", "I", "J", "K", "L", "M",
              "N", "O", "P", "Q", "R", "S", "T", "U", "V", "W", "X", "Y", "Z">>

LowerSeq == <<"a", "b", "c", "d", "e", "f", "g", "h", "i", "j", "k", "l", "m",
              "n", "o", "p", "q", "r", "s", "t", "u", "v", "w", "x", "y", "z">>

UpperCase == {UpperSeq[i] : i \in DOMAIN UpperSeq}

LowerCase == {LowerSeq[i] : i \in DOMAIN LowerSeq}

AlNum == Digits \cup UpperCase \cup LowerCase

\* \w
WordChars == AlNum \cup {"_"}

\* \s, and the characters str.strip() and str.split() treat as blank
WhiteSpace == {" ", "\n", "\t", "\r", "\f"}

LowerFn == [c \in UpperCase |-> LowerSeq[CHOOSE i \in DOMAIN UpperSeq : UpperSeq[i] = c]]

\* str.lower() on one character
LowerChar(c) == IF c \in UpperCase THEN LowerFn[c] ELSE c

\* str.lower()
Lower(s) == [i \in DOMAIN s |-> LowerChar(s[i])]

\* two characters are the same, or the same up to case under re.IGNORECASE
SameChar(a, b, ignorecase) == IF ignorecase THEN LowerChar(a) = LowerChar(b) ELSE a = b

\* the character at position i (1-based), "" outside the string
At(t, i) == IF i >= 1 /\ i <= Len(t) THEN t[i] ELSE ""

\* s[i:] with a 1-based i
From(t, i) == SubSeq(t, i, Len(t))

\* a literal matches at position i
LitAt(t, i, lit, ignorecase) ==
    /\ i >= 1
    /\ i + Len(lit) - 1 <= Len(t)
    /\ \A k \in 1..Len(lit) : SameChar(t[i + k - 1], lit[k], ignorecase)

\* greedy C*: the first position >= i whose character is not in C
RECURSIVE SkipWhile(_, _, _)
SkipWhile(t, i, C) == IF i <= Len(t) /\ t[i] \in C THEN SkipWhile(t, i + 1, C) ELSE i

\* the substring test  lit in t  (or re.search of a literal)
Contains(t, lit, ignorecase) == \E i \in 1..Len(t) : LitAt(t, i, lit, ignorecase)

\* str.strip()
RECURSIVE SkipBack(_, _, _)
SkipBack(t, j, C) == IF j >= 1 /\ t[j] \in C THEN SkipBack(t, j - 1, C) ELSE j

Strip(s) ==
    LET i == SkipWhile(s, 1, WhiteSpace)
        j == SkipBack(s, Len(s), WhiteSpace)
    IN  IF i > j THEN <<>> ELSE SubSeq(s, i, j)

\* str.split(sep) for a one-character separator
RECURSIVE SplitOn(_, _)
SplitOn(s, sep) ==
    IF \A i \in 1..Len(s) : s[i] # sep THEN <<s>>
    ELSE LET i == CHOOSE k \in 1..Len(s) : s[k] = sep /\ \A m \in 1..(k - 1) : s[m] # sep
         IN  <<SubSeq(s, 1, i - 1)>> \o SplitOn(From(s, i + 1), sep)

\* str.split(): split on runs of blanks, no empty words
RECURSIVE Words(_)
Words(s) ==
    LET i == SkipWhile(s, 1, WhiteSpace)
    IN  IF i > Len(s) THEN <<>>
        ELSE LET j == SkipWhile(s, i, {s[k] : k \in i..Len(s)} \ WhiteSpace)
             IN  <<SubSeq(s, i, j - 1)>> \o Words(From(s, j))

\* ' '.join(parts)
RECURSIVE Join(_)
Join(parts) ==
    IF Len(parts) = 0 THEN <<>>
    ELSE IF Len(parts) = 1 THEN parts[1]
    ELSE parts[1] \o <<" ">> \o Join(Tail(parts))

\* re.sub(r'\s+', ' ', s)
RECURSIVE CollapseSpace(_)
CollapseSpace(s) ==
    IF Len(s) = 0 THEN <<>>
    ELSE IF s[1] \in WhiteSpace
         THEN <<" ">> \o CollapseSpace(From(s, SkipWhile(s, 1, WhiteSpace)))
         ELSE <<s[1]>> \o CollapseSpace(Tail(s))

\* s.replace(wrong, right): every non-overlapping occurrence, left to right
RECURSIVE Replace(_, _, _)
Replace(s, wrong, right) ==
    IF Len(s) = 0 THEN <<>>
    ELSE IF LitAt(s, 1, wrong, FALSE)
         THEN right \o Replace(From(s, Len(wrong) + 1), wrong, right)
         ELSE <<s[1]>> \o Replace(Tail(s), wrong, right)

----------------------------------------------------------------------------
(***************************************************************************)
(* The regular expressions of parse_coupon_data.  A match operator gives   *)
(* the position just after the match that starts at position i, or 0 when  *)
(* the pattern does not match there.                                       *)
(***************************************************************************)
s_OFF == <<"O", "F", "F">>

s_Limit == <<"L", "i", "m", "i", "t">>

s_While == <<"W", "h", "i", "l", "e">>

s_supplies == <<"s", "u", "p", "p", "l", "i", "e", "s">>

s_last == <<"l", "a", "s", "t">>

s_BOOK_WITH == <<"B", "O", "O", "K", " ", "W", "I", "T", "H">>

s_TRAVEL == <<"T", "R", "A", "V", "E", "L">>

s_PACKAGE == <<"P", "A", "C", "K", "A", "G", "E">>

s_warehouse == <<"w", "a", "r", "e", "h", "o", "u", "s", "e">>

s_online == <<"o", "n", "l", "i", "n", "e">>

\* a match object: found, and group(0)
NoMatch == [found |-> FALSE, group0 |-> <<>>]

\* re.search: the leftmost position where M matches, as a match object
Search(t, M(_, _)) ==
    LET S == {i \in 1..Len(t) : M(t, i) # 0}
    IN  IF S = {} THEN NoMatch
        ELSE LET i == CHOOSE k \in S : \A m \in S : k <= m
             IN  [found |-> TRUE, group0 |-> SubSeq(t, i, M(t, i) - 1)]

\* \$\d+(?:\.\d{2})?\s*KEYWORD  at position i
AmountKeywordEnd(t, i, keyword, ignorecase) ==
    IF At(t, i) # "$" THEN 0
    ELSE LET d == SkipWhile(t, i + 1, Digits)
         IN  IF d = i + 1 THEN 0
             ELSE LET c == IF At(t, d) = "." /\ At(t, d + 1) \in Digits /\ At(t, d + 2) \in Digits
                           THEN d + 3 ELSE d
                      s == SkipWhile(t, c, WhiteSpace)
                  IN  IF LitAt(t, s, keyword, ignorecase) THEN s + Len(keyword) ELSE 0

\* the split pattern  (?=\$\d+(?:\.\d{2})?\s*OFF)  : case-sensitive
SplitMarkerEnd(t, i) == AmountKeywordEnd(t, i, s_OFF, FALSE)

\* the discount pattern  \$[0-9]+(?:\.\d{2})?\s*OFF  with re.IGNORECASE
DiscountEnd(t, i) == AmountKeywordEnd(t, i, s_OFF, TRUE)

\* (Limit\s+\d+|While\s+supplies\s+last)  with re.IGNORECASE
LimitEnd(t, i) ==
    LET a  == SkipWhile(t, i + 5, WhiteSpace)
        a2 == SkipWhile(t, a, Digits)
        b  == SkipWhile(t, i + 5, WhiteSpace)
        b2 == SkipWhile(t, b + 8, WhiteSpace)
    IN  IF LitAt(t, i, s_Limit, TRUE) /\ a > i + 5 /\ a2 > a THEN a2
        ELSE IF /\ LitAt(t, i, s_While, TRUE) /\ b > i + 5
                /\ LitAt(t, b, s_supplies, TRUE) /\ b2 > b + 8
                /\ LitAt(t, b2, s_last, TRUE)
             THEN b2 + 4
             ELSE 0

\* \$[0-9]+\.\d{2}
PriceEnd(t, i) ==
    IF At(t, i) # "$" THEN 0
    ELSE LET d == SkipWhile(t, i + 1, Digits)
         IN  IF d > i + 1 /\ At(t, d) = "." /\ At(t, d + 1) \in Digits /\ At(t, d + 2) \in Digits
             THEN d + 3 ELSE 0

\* re.split(r'(?=\$\d+(?:\.\d{2})?\s*OFF)', text): the text is cut before every
\* position where the marker matches; a marker at the very start leaves an
\* empty first piece
RECURSIVE Pieces(_, _, _)
Pieces(t, start, P) ==
    IF P = {} THEN <<From(t, start)>>
    ELSE LET p == CHOOSE k \in P : \A m \in P : k <= m
         IN  <<SubSeq(t, start, p - 1)>> \o Pieces(t, p, P \ {p})

re_split(t) ==
    LET P == {i \in 1..Len(t) : SplitMarkerEnd(t, i) # 0}
    IN  IF 1 \in P THEN <<<<>>>> \o Pieces(t, 1, P \ {1}) ELSE Pieces(t, 1, P)

\* lines = [line.strip() for line in block.split('\n') if line.strip()]
RECURSIVE StripLines(_)
StripLines(ls) ==
    IF Len(ls) = 0 THEN <<>>
    ELSE LET l == Strip(ls[1])
         IN  (IF Len(l) = 0 THEN <<>> ELSE <<l>>) \o StripLines(Tail(ls))

block_lines(block) == StripLines(SplitOn(block, "\n"))

\* re.search(r'BOOK WITH|TRAVEL|PACKAGE|^\W+$', full_text, re.IGNORECASE)
Excluded(full_text) ==
    \/ Contains(full_text, s_BOOK_WITH, TRUE)
    \/ Contains(full_text, s_TRAVEL, TRUE)
    \/ Contains(full_text, s_PACKAGE, TRUE)
    \/ (Len(full_text) > 0 /\ \A i \in 1..Len(full_text) : full_text[i] \notin WordChars)

MinLength == 10

\* the block produces no record
Rejected(block) ==
    LET lines == block_lines(block)
        full_text == Join(lines)
    IN  \/ Len(lines) = 0
        \/ Len(full_text) < MinLength
        \/ Excluded(full_text)

----------------------------------------------------------------------------
(***************************************************************************)
(* parse_coupon_data (src/app/app17.py).                                   *)
(*                                                                         *)
(* Two things the code leaves to its environment are parameters:           *)
(*   order  the order in which `for brand in known_brands` enumerates the  *)
(*          set (a sequence holding each brand once);                      *)
(*   fz     the answer of rapidfuzz's process.extractOne(query, brands,    *)
(*          score_cutoff=80) for each query: a brand of the catalog, or    *)
(*          None.                                                          *)
(***************************************************************************)
\* Python's None: a value that is no str (no str holds an element "None")
None == <<"None">>

\* the orders in which a set can be enumerated
Orders(S) == {o \in [1..Cardinality(S) -> S] : {o[i] : i \in DOMAIN o} = S}

\* re.search(rf'(?<!\w){re.escape(brand.lower())}(?!\w)', full_text.lower())
ExactBrandMatch(brand, full_text) ==
    LET b == Lower(brand)
        t == Lower(full_text)
    IN  \E i \in 1..Len(t) :
            /\ LitAt(t, i, b, FALSE)
            /\ At(t, i - 1) \notin WordChars
            /\ At(t, i + Len(b)) \notin WordChars

\* for brand in known_brands: if re.search(...): item_brand = brand; break
RECURSIVE exact_brand(_, _)
exact_brand(order, full_text) ==
    IF Len(order) = 0 THEN <<>>
    ELSE IF ExactBrandMatch(order[1], full_text) THEN order[1]
    ELSE exact_brand(Tail(order), full_text)

\* possible_brand = ' '.join(full_text.split()[:3])
possible_brand(full_text) ==
    LET w == Words(full_text)
    IN  Join(SubSeq(w, 1, IF Len(w) < 3 THEN Len(w) ELSE 3))

fuzzy_find_brand(ocr_text, order, fz) ==
    IF Len(order) = 0 THEN None ELSE fz[ocr_text]

\* re.match(r'^([A-Z][a-zA-Z0-9&\-\']+)', full_text)
capitalized_brand(full_text) ==
    LET j == SkipWhile(full_text, 2, AlNum \cup {"&", "-", "'"})
    IN  IF At(full_text, 1) \in UpperCase /\ j > 2
        THEN [found |-> TRUE, group0 |-> SubSeq(full_text, 1, j - 1)]
        ELSE NoMatch

\* a brand extraction that assigns the fuzzy matcher's answer untested:
\* item_brand = fuzzy_find_brand(...), then the capitalized fallback if that is
\* falsy, so that None stays when nothing matches
extract_brand_unchecked_fuzzy(full_text, order, fz) ==
    LET exact == exact_brand(order, full_text)
    IN  IF Len(exact) > 0 THEN exact
        ELSE LET fuzzy_brand == fuzzy_find_brand(possible_brand(full_text), order, fz)
                 brand_match == capitalized_brand(full_text)
             IN  IF fuzzy_brand # None /\ Len(fuzzy_brand) > 0 THEN fuzzy_brand
                 ELSE IF brand_match.found THEN brand_match.group0
                 ELSE fuzzy_brand

\* --- Brand Extraction ---  (`if fuzzy_brand:` is false for None and for "")
extract_brand(full_text, order, fz) ==
    LET exact == exact_brand(order, full_text)
    IN  IF Len(exact) > 0 THEN exact
        ELSE LET fuzzy_brand == fuzzy_find_brand(possible_brand(full_text), order, fz)
                 brand_match == capitalized_brand(full_text)
             IN  IF fuzzy_brand # None /\ Len(fuzzy_brand) > 0 THEN fuzzy_brand
                 ELSE IF brand_match.found THEN brand_match.group0
                 ELSE <<>>

\* pattern = re.compile(rf'^{re.escape(item_brand)}[\s:,-]*', re.IGNORECASE)
\* pattern.sub('', item_description).strip()
remove_brand(item_brand, s) ==
    IF LitAt(s, 1, item_brand, TRUE)
    THEN Strip(From(s, SkipWhile(s, Len(item_brand) + 1, WhiteSpace \cup {":", ",", "-"})))
    ELSE Strip(s)

\* --- Description Extraction ---
extract_description(full_text, item_brand) ==
    LET d0 == Strip(full_text)
        d1 == IF Len(item_brand) > 0 THEN remove_brand(item_brand, d0) ELSE d0
        \* re.sub(r'^[^a-zA-Z0-9]+', '', d)
        d2 == From(d1, SkipWhile(d1, 1, {d1[k] : k \in DOMAIN d1} \ AlNum))
        \* re.sub(r'[^a-zA-Z0-9]+$', '', d)
        d3 == SubSeq(d2, 1, SkipBack(d2, Len(d2), {d2[k] : k \in DOMAIN d2} \ AlNum))
    IN  CollapseSpace(d3)

\* a cleaning that only drops the currency sign
clean_discount_dollar_only(discount) ==
    SelectSeq(discount, LAMBDA c : c # "$")

\* re.sub(r'[^\d.]', '', discount) if discount else ""
clean_discount(discount) ==
    SelectSeq(discount, LAMBDA c : c \in Digits \cup {"."})

\* a channel test whose branch for both keywords comes after the single ones
\* and is never reached
extract_channel_both_last(t, hot) ==
    LET warehouse == Contains(Lower(t), s_warehouse, FALSE)
        online    == Contains(Lower(t), s_online, FALSE)
    IN  IF ~hot THEN ""
        ELSE IF warehouse THEN "In-Warehouse"
        ELSE IF online THEN "Online"
        ELSE ""

\* channel: 'warehouse' in text.lower(), 'online' in text.lower()
extract_channel(t, hot) ==
    LET warehouse == Contains(Lower(t), s_warehouse, FALSE)
        online    == Contains(Lower(t), s_online, FALSE)
    IN  IF ~hot THEN ""
        ELSE IF warehouse /\ online THEN "In-Warehouse + Online"
        ELSE IF warehouse THEN "In-Warehouse"
        ELSE IF online THEN "Online"
        ELSE ""

\* the row built for one surviving block
make_row(block, t, source_url, hot, order, fz, now) ==
    LET full_text == Join(block_lines(block))
        item_brand == extract_brand(full_text, order, fz)
        discount_match == Search(t, DiscountEnd)
        discount == IF discount_match.found THEN discount_match.group0 ELSE <<>>
        limit == Search(t, LimitEnd)
        price == Search(t, PriceEnd)
    IN  [scrape_datetime     |-> now,
         article_name        |-> IF hot THEN "Costco April 2025 Hot Buys Coupons"
                                        ELSE "Costco April 2025 Coupon Book",
         publish_date        |-> IF hot THEN "2025-03-28 00:00:00" ELSE "2025-04-01 00:00:00",
         item_brand          |-> item_brand,
         item_description    |-> extract_description(full_text, item_brand),
         discount            |-> discount,
         discount_cleaned    |-> IF Len(discount) > 0 THEN clean_discount(discount) ELSE <<>>,
         count_limit         |-> IF limit.found THEN limit.group0 ELSE <<>>,
         channel             |-> extract_channel(t, hot),
         discount_period     |-> IF hot THEN "March 29th through April 6th"
                                        ELSE "April 9th through May 4th",
         item_original_price |-> IF price.found THEN price.group0 ELSE <<>>,
         source_url          |-> source_url]

\* a loop whose data.append(row) stands after the loop body: only the row of
\* the last surviving block is appended
RECURSIVE parse_blocks_append_after_loop(_, _, _, _, _, _, _)
parse_blocks_append_after_loop(bs, t, source_url, hot, order, fz, now) ==
    IF Len(bs) = 0 THEN <<>>
    ELSE LET rest == parse_blocks_append_after_loop(Tail(bs), t, source_url, hot, order, fz, now)
         IN  IF Len(rest) > 0 \/ Rejected(bs[1]) THEN rest
             ELSE <<make_row(bs[1], t, source_url, hot, order, fz, now)>>

\* for block in blocks: ... data.append(row)
RECURSIVE parse_blocks(_, _, _, _, _, _, _)
parse_blocks(bs, t, source_url, hot, order, fz, now) ==
    IF Len(bs) = 0 THEN <<>>
    ELSE (IF Rejected(bs[1]) THEN <<>>
          ELSE <<make_row(bs[1], t, source_url, hot, order, fz, now)>>)
         \o parse_blocks(Tail(bs), t, source_url, hot, order, fz, now)

\* a segmenter that drops the first non-blank piece as the text before the marker
segment_drop_first(t) ==
    LET bs == SelectSeq(re_split(t), LAMBDA b : Len(block_lines(b)) > 0)
    IN  IF Len(bs) = 0 THEN bs ELSE Tail(bs)

\* the blocks the loop goes on with: those that pass `if not lines: continue`
segment(t) == SelectSeq(re_split(t), LAMBDA b : Len(block_lines(b)) > 0)

parse_coupon_data(t, source_url, hot, order, fz, now) ==
    parse_blocks(segment(t), t, source_url, hot, order, fz, now)

\* the queries parse_coupon_data puts to the fuzzy matcher for text t
FuzzyQueries(t, brands) ==
    LET bs == segment(t)
    IN  {possible_brand(Join(block_lines(bs[i]))) :
            i \in {k \in DOMAIN bs : /\ ~Rejected(bs[k])
                                     /\ \A b \in brands :
                                            ~ExactBrandMatch(b, Join(block_lines(bs[k])))}}

\* the answers extractOne can give: a brand of the catalog or None
FuzzyOracles(t, brands) == [FuzzyQueries(t, brands) -> brands \cup {None}]

----------------------------------------------------------------------------
(***************************************************************************)
(* SpecParse: parse_coupon_data applied to one OCR text.  The texts are    *)
(* the concatenations of at most MaxTokens tokens, and the example text of *)
(* the specification.                                                      *)
(***************************************************************************)
MaxTokens == 2

Tokens == {
    <<"K", "i", "r", "k", "l", "a", "n", "d", " ">>,
    <<"P", "a", "p", "e", "r", " ", "T", "o", "w", "e", "l", "s", " ">>,
    <<"$", "5", " ", "O", "F", "F", " ">>,
    <<"$", "5", ".", "0", "0", " ", "o", "f", "f", " ">>,
    <<"L", "i", "m", "i", "t", " ", "2", " ">>,
    <<"$", "1", "9", ".", "9", "9", " ">>,
    <<"O", "n", "l", "i", "n", "e">>,
    <<"\n">>,
    <<"w", "a", "r", "e", "h", "o", "u", "s", "e", " ">>,
    <<"T", "R", "A", "V", "E", "L", " ">>,
    <<"$", "3", " ", "S", "A", "V", "E", " ">>,
    <<".", ".", ".", " ">>
}

RECURSIVE TextsOf(_)
TextsOf(n) ==
    IF n = 0 THEN {<<>>}
    ELSE LET S == TextsOf(n - 1) IN S \cup {s \o tok : s \in S, tok \in Tokens}

s_Kirkland == <<"K", "i", "r", "k", "l", "a", "n", "d">>

s_Paper == <<"P", "a", "p", "e", "r">>

KirklandExample ==
    <<"K", "i", "r", "k", "l", "a", "n", "d", " ", "P", "a", "p", "e", "r", " ", "T", "o", "w", "e", "l", "s", " ", "$", "5", " ", "O", "F", "F", " ", "L", "i", "m", "i", "t", " ", "2", " ", "$", "1", "9", ".", "9", "9", " ", "O", "n", "l", "i", "n", "e">>

\* a text of three blocks, the second of which is too short to be kept
FilteredExample ==
    <<"P", "a", "p", "e", "r", " ", "T", "o", "w", "e", "l", "s", " ", "$", "5", " ", "O", "F", "F", " ", "$", "5", " ", "O", "F", "F", " ", "L", "i", "m", "i", "t", " ", "2", " ">>

\* a text whose words are set apart by a run of spaces, as OCR of a wide
\* layout gives
SpacedExample == <<"T", "i", "d", "e", " ", " ", " ", " ", "P", "o", "d", "s">>

Texts == TextsOf(MaxTokens) \cup {KirklandExample, FilteredExample, SpacedExample}

\* brand catalogs: load_known_brands never returns an empty set
Catalogs == {{s_Kirkland}, {s_Kirkland, s_Paper}}

Now == "2025-04-28 10:00:00.000"

ImgUrl == "https://www.costcoinsider.com/img.jpg"

\* the variables of the other specifications, at rest
GridIdle ==
    /\ img_size = <<1, 1>> /\ v_peaks = {} /\ h_peaks = {} /\ boxes = <<>> /\ grid_pc = "idle"

MainIdle ==
    /\ tesseract_ok = TRUE /\ pc = "idle" /\ stack = <<>> /\ ret = <<>> /\ fetched = <<>>
    /\ downloaded = <<>> /\ ocr_calls = <<>> /\ parse_calls = <<>> /\ files = <<>>

\* CONFIG['max_retries']
max_retries == 3

FetchIdle ==
    /\ server = <<>> /\ fetch_fn = "none" /\ fetch_pc = "idle"
    /\ attempt = 0 /\ sent = 0 /\ result = <<>>

NoEnv == [order |-> <<>>, fz |-> <<>>]

NoCall == [text |-> <<>>, blocks |-> <<>>, data |-> <<>>]

ParseIdle ==
    /\ text = <<>> /\ is_hot_buy = FALSE /\ known_brands = {} /\ blocks = <<>>
    /\ data = <<>> /\ reseg = <<>> /\ env = NoEnv /\ again = NoCall /\ parse_pc = "idle"

ParseInit ==
    /\ text \in Texts
    /\ is_hot_buy \in BOOLEAN
    /\ known_brands \in Catalogs
    /\ blocks = <<>>
    /\ data = <<>>
    /\ reseg = <<>>
    /\ env = NoEnv
    /\ again = NoCall
    /\ parse_pc = "input"
    /\ GridIdle
    /\ MainIdle
    /\ FetchIdle

\* parsed = parse_coupon_data(text, img_url, is_hot_buy, known_brands)
ParseCouponData ==
    /\ parse_pc = "input"
    /\ \E order \in Orders(known_brands), fz \in FuzzyOracles(text, known_brands) :
           /\ data' = parse_coupon_data(text, ImgUrl, is_hot_buy, order, fz, Now)
           /\ env' = [order |-> order, fz |-> fz]
    /\ blocks' = segment(text)
    /\ parse_pc' = "returned"
    /\ UNCHANGED <<text, is_hot_buy, known_brands, reseg, again, gridVars, mainVars, fetchVars>>

\* one of the blocks is given to the segmenter again
Resegment ==
    /\ parse_pc = "returned"
    /\ \E k \in DOMAIN blocks :
           reseg' = [index |-> k, block |-> blocks[k], blocks |-> segment(blocks[k])]
    /\ parse_pc' = "resegmented"
    /\ UNCHANGED <<text, is_hot_buy, known_brands, blocks, data, env, again,
                   gridVars, mainVars, fetchVars>>

\* the same call again, with the same answers of the fuzzy matcher, in a
\* process that enumerates the set known_brands in another order
ParseReordered ==
    /\ parse_pc = "returned"
    /\ \E order \in Orders(known_brands) :
           again' = [text |-> text, blocks |-> segment(text),
                     data |-> parse_coupon_data(text, ImgUrl, is_hot_buy, order, env.fz, Now)]
    /\ parse_pc' = "reordered"
    /\ UNCHANGED <<text, is_hot_buy, known_brands, blocks, data, reseg, env,
                   gridVars, mainVars, fetchVars>>

\* a call on the text that holds one of the surviving blocks of the first
\* text and no other block
ParseOtherText ==
    /\ parse_pc = "returned"
    /\ \E k \in DOMAIN blocks :
        LET t == blocks[k] IN
           /\ ~Rejected(blocks[k])
           /\ t # text
           /\ segment(t) = <<blocks[k]>>
           /\ \E order \in Orders(known_brands), fz \in FuzzyOracles(t, known_brands) :
                  again' = [text |-> t, blocks |-> segment(t),
                            data |-> parse_coupon_data(t, ImgUrl, is_hot_buy, order, fz, Now)]
    /\ parse_pc' = "other"
    /\ UNCHANGED <<text, is_hot_buy, known_brands, blocks, data, reseg, env,
                   gridVars, mainVars, fetchVars>>

ParseNext == ParseCouponData \/ Resegment \/ ParseReordered \/ ParseOtherText

SpecParse == ParseInit /\ [][ParseNext]_vars

----------------------------------------------------------------------------
(***************************************************************************)
(* Properties of parse_coupon_data, checked under SpecParse.               *)
(***************************************************************************)
s_SAVE == <<"S", "A", "V", "E">>

\* digits and at most one '.'
IsCleanNumber(s) ==
    /\ \A i \in DOMAIN s : s[i] \in Digits \cup {"."}
    /\ Cardinality({i \in DOMAIN s : s[i] = "."}) <= 1

\* C1: every record's discount_cleaned is empty or made of decimal digits and
\* at most one '.'.
C1_DiscountCleanedNumeric ==
    \A k \in DOMAIN data : IsCleanNumber(data[k].discount_cleaned)

\* a record whose discount "$5.00 off" was cleaned to "5.00"
C1_Witness ==
    /\ parse_pc = "returned"
    /\ \E k \in DOMAIN data :
           /\ data[k].discount = <<"$", "5", ".", "0", "0", " ", "o", "f", "f">>
           /\ data[k].discount_cleaned = <<"5", ".", "0", "0">>

\* C2: a record with a non-empty item_brand has an item_description that does
\* not begin with that brand, compared case-insensitively.
C2_DescriptionNeverStartsWithBrand ==
    \A k \in DOMAIN data :
        Len(data[k].item_brand) > 0 =>
            ~LitAt(data[k].item_description, 1, data[k].item_brand, TRUE)

\* a currency amount followed by OFF or SAVE, in any letter case
HasMarker(t) ==
    \E i \in 1..Len(t) :
        \/ AmountKeywordEnd(t, i, s_OFF, TRUE) # 0
        \/ AmountKeywordEnd(t, i, s_SAVE, TRUE) # 0

\* C4: a text without any discount marker yields zero blocks (no block of it
\* survives the segmenter) and zero records.
C4_NoMarkerNoRecords ==
    (parse_pc # "input" /\ ~HasMarker(text))
    => /\ \A k \in DOMAIN blocks : Rejected(blocks[k])
       /\ Len(data) = 0

\* C5: re-segmenting a block that segmentation produced yields exactly that
\* block, unchanged, and nothing else.
C5_SegmentIdempotent ==
    parse_pc = "resegmented" => reseg.blocks = <<reseg.block>>

\* a block that starts at a marker, cut from a text with several blocks, was
\* segmented again
C5_Witness ==
    /\ parse_pc = "resegmented"
    /\ Len(blocks) > 1
    /\ SplitMarkerEnd(reseg.block, 1) # 0
    /\ reseg.blocks = <<reseg.block>>

\* C6: the example text of a hot-buy flyer with catalog {Kirkland} yields one
\* record: brand Kirkland, discount "$5 OFF", discount_cleaned "5", count_limit
\* "Limit 2", price "$19.99", channel Online, and a description that contains
\* "Paper Towels" and none of "Kirkland", "$5 OFF", "Limit 2", "Online".
C6_KirklandExampleOneRecord ==
    (/\ parse_pc # "input"
     /\ text = KirklandExample
     /\ is_hot_buy
     /\ known_brands = {s_Kirkland})
    => /\ Len(data) = 1
       /\ data[1].item_brand = s_Kirkland
       /\ data[1].discount = <<"$", "5", " ", "O", "F", "F">>
       /\ data[1].discount_cleaned = <<"5">>
       /\ data[1].count_limit = <<"L", "i", "m", "i", "t", " ", "2">>
       /\ data[1].item_original_price = <<"$", "1", "9", ".", "9", "9">>
       /\ data[1].channel = "Online"
       /\ Contains(data[1].item_description, <<"P", "a", "p", "e", "r", " ", "T", "o", "w", "e", "l", "s">>, FALSE)
       /\ ~Contains(data[1].item_description, s_Kirkland, FALSE)
       /\ ~Contains(data[1].item_description, <<"$", "5", " ", "O", "F", "F">>, FALSE)
       /\ ~Contains(data[1].item_description, <<"L", "i", "m", "i", "t", " ", "2">>, FALSE)
       /\ ~Contains(data[1].item_description, <<"O", "n", "l", "i", "n", "e">>, FALSE)

\* the blocks that pass the minimum-length and exclusion filters, in order
SurvivingBlocks == SelectSeq(blocks, LAMBDA b : ~Rejected(b))

\* C11: parse_coupon_data returns exactly one record per block that passes the
\* minimum-length and exclusion filters and none for a rejected block: there
\* are as many records as surviving blocks, and the j-th record is the one of
\* the j-th surviving block (its description is that block's description).
C11_OneRecordPerSurvivingBlock ==
    parse_pc # "input" =>
        /\ Len(data) = Len(SurvivingBlocks)
        /\ \A j \in DOMAIN data :
               data[j].item_description =
                   extract_description(Join(block_lines(SurvivingBlocks[j])),
                                       data[j].item_brand)

\* three blocks, the middle one rejected: two records, of the first and of the
\* third block
C11_Witness ==
    /\ parse_pc = "returned"
    /\ text = FilteredExample
    /\ Len(blocks) = 3
    /\ Rejected(blocks[2])
    /\ Len(data) = 2
    /\ data[1].item_description # data[2].item_description

----------------------------------------------------------------------------
(***************************************************************************)
(* Spec: main() of src/app/app17.py.                                       *)
(*                                                                         *)
(* The web and the OCR engine are the environment: what a request or an    *)
(* OCR call answers is chosen when the call is made.  An img tag is        *)
(* "src" (a usable src attribute), "empty_src" (src="") or "no_src" (no    *)
(* src attribute).  An uncaught exception ends the run: pc = "crashed".    *)
(***************************************************************************)
\* img tags met in one run, over all the pages it fetches
MaxImages == 2

\* nesting depth of scrape_images_from_page
MaxDepth == 2

CouponUrl == "https://www.costcoinsider.com/costco-april-2025-coupon-book/"

HotBuysUrl == "https://www.costcoinsider.com/costco-april-2025-hot-buys-coupons/"

Page2Url == "https://www.costcoinsider.com/costco-april-2025-hot-buys-coupons/2/"

\* where the next link of a page can lead: back to the page or to page 2
LinkTargets == {HotBuysUrl, Page2Url}

NoLink == "no next link"

TagKinds == {"src", "empty_src", "no_src"}

ImageLists(max) == UNION {[1..n -> TagKinds] : n \in 0..max}

\* the brand files found on disk (hot_buy_brands.txt, coupon_book_brands.txt)
PageCatalogs == {{s_Kirkland}}

\* an OCR output with two discount markers and a price
TwoCouponsRaw ==
    <<"T", "i", "d", "e", " ", "P", "o", "d", "s", " ", "$", "5", " ", "O", "F", "F", " ", "G", "a", "i", "n", " ", "S", "o", "a", "p", " ", "$", "3", " ", "O", "F", "F", " ", "$", "9", ".", "9", "9">>

\* what pytesseract.image_to_string can return for an image
RawTexts == {
    <<>>,
    <<" ", "\n">>,
    <<"K", "i", "r", "k", "l", "a", "n", "d", " ", "T", "o", "w", "e", "l", "s", " ", "$", "1", "0", " ", "O", "F", "F", " ", "|">>,
    TwoCouponsRaw
}

\* a correction table with the letter shapes only
ocr_corrections_letters_only == <<
    <<<<"|">>, <<"I">>>>,
    <<<<"v", "v">>, <<"W">>>> >>

\* the ocr_corrections dict, in insertion order
ocr_corrections == <<
    <<<<"|">>, <<"I">>>>,
    <<<<"1">>, <<"I">>>>,
    <<<<"0">>, <<"O">>>>,
    <<<<"v", "v">>, <<"W">>>>,
    <<<<"$">>, <<"S">>>> >>

\* for wrong, right in ocr_corrections.items(): text = text.replace(wrong, right)
RECURSIVE apply_corrections(_, _)
apply_corrections(t, table) ==
    IF Len(table) = 0 THEN t
    ELSE apply_corrections(Replace(t, table[1][1], table[1][2]), Tail(table))

\* what an OCR call comes to: pytesseract raises, or returns a text
OcrOutcomes ==
    {[throws |-> TRUE, text |-> <<>>]} \cup {[throws |-> FALSE, text |-> t] : t \in RawTexts}

\* an extract_text_from_image that hands back the error message of a failed OCR
extract_text_from_image_error_text(ocr) ==
    IF ocr.throws THEN <<"O", "C", "R", " ", "f", "a", "i", "l", "e", "d">>
    ELSE apply_corrections(Strip(ocr.text), ocr_corrections)

extract_text_from_image(ocr) ==
    IF ocr.throws THEN <<>>
    ELSE apply_corrections(Strip(ocr.text), ocr_corrections)

\* download_image: what the request and the decoding of its answer come to
DownloadOutcomes == {"ok", "http_error", "not_image", "undecodable"}

\* a download_image without the Content-Type test
download_image_no_type_check(outcome) == outcome \in {"ok", "not_image"}

\* download_image returns an image (TRUE) or None (FALSE): the request fails
\* (raise_for_status), the Content-Type does not start with "image", or
\* Image.open fails on the bytes
download_image(outcome) == outcome = "ok"

\* img_url of an img tag: urljoin(url, src); an empty src joins to the page url
img_url_of(url, n, tag) == IF tag = "empty_src" THEN <<url, 0>> ELSE <<url, n>>

\* the outcomes a request for img_url can have: the page url answers with HTML
OutcomesFor(tag) ==
    IF tag = "empty_src" THEN {"http_error", "not_image"} ELSE DownloadOutcomes

\* the locals of the loop body before the first iteration
NoImage == [img_url |-> <<>>, download |-> "none", img |-> FALSE,
            ocr |-> [throws |-> FALSE, text |-> <<>>], text |-> <<>>]

Frame(url, hot) ==
    [url |-> url, is_hot_buy |-> hot, at |-> "get_page", known_brands |-> {},
     images |-> <<>>, idx |-> 1, last |-> NoImage, items |-> <<>>, next |-> NoLink]

Top == stack[Len(stack)]

SetTop(f) == [stack EXCEPT ![Len(stack)] = f]

\* an initialize that reports success whatever Tesseract does
initialize_always_true(ok) == TRUE

\* initialize(): True when get_tesseract_version() works, False when it raises
initialize(ok) == ok

Init ==
    /\ tesseract_ok \in BOOLEAN
    /\ pc = "start"
    /\ stack = <<>>
    /\ ret = <<>>
    /\ fetched = <<>>
    /\ downloaded = <<>>
    /\ ocr_calls = <<>>
    /\ parse_calls = <<>>
    /\ files = <<>>
    /\ ParseIdle
    /\ GridIdle
    /\ FetchIdle

\* if not initialize(): return
Initialize ==
    /\ pc = "start"
    /\ pc' = IF initialize(tesseract_ok) THEN "call_coupons" ELSE "done"
    /\ UNCHANGED <<tesseract_ok, stack, ret, fetched, downloaded, ocr_calls, parse_calls,
                   files, parseVars, gridVars, fetchVars>>

\* main calls scrape_images_from_page(coupon_url, False) / (hot_buys_url, True)
MainCallsScrape ==
    /\ pc \in {"call_coupons", "call_hot_buys"}
    /\ stack' = <<Frame(IF pc = "call_coupons" THEN CouponUrl ELSE HotBuysUrl,
                        pc = "call_hot_buys")>>
    /\ pc' = IF pc = "call_coupons" THEN "coupons" ELSE "hot_buys"
    /\ UNCHANGED <<tesseract_ok, ret, fetched, downloaded, ocr_calls, parse_calls, files,
                   parseVars, gridVars, fetchVars>>

\* html = get_page(url); if not html: return []; the brands are loaded and the
\* img tags and the next link are read from the page
GetPage ==
    /\ stack # <<>>
    /\ Top.at = "get_page"
    /\ fetched' = Append(fetched, Top.url)
    /\ \/ stack' = SetTop([Top EXCEPT !.at = "return"])
       \/ \E imgs \in ImageLists(MaxImages - Len(downloaded)),
             nxt \in LinkTargets \cup {NoLink}, brands \in PageCatalogs :
              stack' = SetTop([Top EXCEPT !.at = "loop", !.images = imgs,
                                          !.next = nxt, !.known_brands = brands])
    /\ UNCHANGED <<tesseract_ok, pc, ret, downloaded, ocr_calls, parse_calls, files,
                   parseVars, gridVars, fetchVars>>

\* one iteration of `for img_tag in images`, for a tag without src attribute:
\* img_tag.get('src') is None and None.startswith raises AttributeError, which
\* nothing catches
ProcessImageNoSrc ==
    /\ stack # <<>>
    /\ Top.at = "loop"
    /\ Top.idx <= Len(Top.images)
    /\ Top.images[Top.idx] = "no_src"
    /\ pc' = "crashed"
    /\ stack' = <<>>
    /\ UNCHANGED <<tesseract_ok, ret, fetched, downloaded, ocr_calls, parse_calls, files,
                   parseVars, gridVars, fetchVars>>

\* one iteration of `for img_tag in images`, for a tag with a src attribute
ProcessImage ==
    /\ stack # <<>>
    /\ Top.at = "loop"
    /\ Top.idx <= Len(Top.images)
    /\ Top.images[Top.idx] # "no_src"
    /\ LET f == Top
           img_url == img_url_of(f.url, f.idx, f.images[f.idx])
       IN  \E dl \in OutcomesFor(f.images[f.idx]), ocr \in OcrOutcomes :
               LET img == download_image(dl)
                   txt == IF img THEN extract_text_from_image(ocr) ELSE <<>>
                   loc == [img_url |-> img_url, download |-> dl, img |-> img,
                           ocr |-> IF img THEN ocr ELSE NoImage.ocr, text |-> txt]
               IN  /\ downloaded' = Append(downloaded, img_url)
                   /\ ocr_calls' = IF img THEN Append(ocr_calls, img_url) ELSE ocr_calls
                   /\ IF img /\ Len(txt) > 0
                      THEN /\ parse_calls' = Append(parse_calls, img_url)
                           /\ \E order \in Orders(f.known_brands),
                                 fz \in FuzzyOracles(txt, f.known_brands) :
                                  stack' = SetTop([f EXCEPT
                                      !.idx = @ + 1,
                                      !.last = loc,
                                      !.items = @ \o parse_coupon_data(txt, img_url,
                                                       f.is_hot_buy, order, fz, Now)])
                      ELSE /\ parse_calls' = parse_calls
                           /\ stack' = SetTop([f EXCEPT !.idx = @ + 1, !.last = loc])
    /\ UNCHANGED <<tesseract_ok, pc, ret, fetched, files, parseVars, gridVars, fetchVars>>

\* a pagination that follows the next link of any flyer
FollowNextPage_any_flyer ==
    /\ stack # <<>>
    /\ Top.at = "loop"
    /\ Top.idx > Len(Top.images)
    /\ Top.next # NoLink
    /\ Len(stack) < MaxDepth
    /\ stack' = Append(SetTop([Top EXCEPT !.at = "call"]), Frame(Top.next, Top.is_hot_buy))
    /\ UNCHANGED <<tesseract_ok, pc, ret, fetched, downloaded, ocr_calls, parse_calls, files,
                   parseVars, gridVars, fetchVars>>

\* after the loop, a hot-buy page with a next link calls itself on next_url
FollowNextPage ==
    /\ stack # <<>>
    /\ Top.at = "loop"
    /\ Top.idx > Len(Top.images)
    /\ Top.is_hot_buy
    /\ Top.next # NoLink
    /\ Len(stack) < MaxDepth
    /\ stack' = Append(SetTop([Top EXCEPT !.at = "call"]), Frame(Top.next, Top.is_hot_buy))
    /\ UNCHANGED <<tesseract_ok, pc, ret, fetched, downloaded, ocr_calls, parse_calls, files,
                   parseVars, gridVars, fetchVars>>

\* after the loop, any other page goes to `return items`
EndOfPage ==
    /\ stack # <<>>
    /\ Top.at = "loop"
    /\ Top.idx > Len(Top.images)
    /\ ~(Top.is_hot_buy /\ Top.next # NoLink)
    /\ stack' = SetTop([Top EXCEPT !.at = "return"])
    /\ UNCHANGED <<tesseract_ok, pc, ret, fetched, downloaded, ocr_calls, parse_calls, files,
                   parseVars, gridVars, fetchVars>>

\* a return whose caller puts the records of the next page before its own
ReturnItems_next_page_first ==
    /\ stack # <<>>
    /\ Top.at = "return"
    /\ IF Len(stack) > 1
       THEN /\ stack' = [SubSeq(stack, 1, Len(stack) - 1) EXCEPT
                            ![Len(stack) - 1].items = Top.items \o @,
                            ![Len(stack) - 1].at = "return"]
            /\ UNCHANGED <<pc, ret>>
       ELSE /\ stack' = <<>>
            /\ ret' = Top.items
            /\ pc' = IF pc = "coupons" THEN "save_coupons" ELSE "save_hot_buys"
    /\ UNCHANGED <<tesseract_ok, fetched, downloaded, ocr_calls, parse_calls, files,
                   parseVars, gridVars, fetchVars>>

\* return items: to the calling page, which extends its items and returns in
\* turn, or to main
ReturnItems ==
    /\ stack # <<>>
    /\ Top.at = "return"
    /\ IF Len(stack) > 1
       THEN /\ stack' = [SubSeq(stack, 1, Len(stack) - 1) EXCEPT
                            ![Len(stack) - 1].items = @ \o Top.items,
                            ![Len(stack) - 1].at = "return"]
            /\ UNCHANGED <<pc, ret>>
       ELSE /\ stack' = <<>>
            /\ ret' = Top.items
            /\ pc' = IF pc = "coupons" THEN "save_coupons" ELSE "save_hot_buys"
    /\ UNCHANGED <<tesseract_ok, fetched, downloaded, ocr_calls, parse_calls, files,
                   parseVars, gridVars, fetchVars>>

\* a column list with discount_cleaned written before discount
columns_discount_swapped ==
    <<"scrape_datetime", "article_name", "publish_date", "item_brand",
      "item_description", "discount_cleaned", "discount", "count_limit",
      "channel", "discount_period", "item_original_price", "source_url">>

\* the columns list of save_to_excel; df = df[columns] selects and orders them
columns == <<"scrape_datetime", "article_name", "publish_date", "item_brand",
             "item_description", "discount", "discount_cleaned", "count_limit",
             "channel", "discount_period", "item_original_price", "source_url">>

\* save_to_excel(data, filename): nothing is written for an empty list
SaveToExcel ==
    /\ pc \in {"save_coupons", "save_hot_buys"}
    /\ files' = IF Len(ret) = 0 THEN files
                ELSE Append(files,
                            [filename |-> IF pc = "save_coupons"
                                          THEN "2025-04-28_Coupon_Books.xlsx"
                                          ELSE "2025-04-28_Hot_Buys_Coupons.xlsx",
                             columns |-> columns,
                             rows |-> [i \in DOMAIN ret |->
                                          [c \in {columns[j] : j \in DOMAIN columns}
                                              |-> ret[i][c]]]])
    /\ pc' = IF pc = "save_coupons" THEN "call_hot_buys" ELSE "done"
    /\ UNCHANGED <<tesseract_ok, stack, ret, fetched, downloaded, ocr_calls, parse_calls,
                   parseVars, gridVars, fetchVars>>

Next ==
    \/ Initialize
    \/ MainCallsScrape
    \/ GetPage
    \/ ProcessImageNoSrc
    \/ ProcessImage
    \/ FollowNextPage
    \/ EndOfPage
    \/ ReturnItems
    \/ SaveToExcel

Spec == Init /\ [][Next]_vars

----------------------------------------------------------------------------
(***************************************************************************)
(* SpecGrid: split_grid_image_dynamic of src/app/app14.py and of           *)
(* src/app/app15.py applied to one image.                                  *)
(*                                                                         *)
(* The edge detection is the environment: the peaks are any set of column  *)
(* (row) indices that np.where(projection > mean * 1.5) can return, which  *)
(* are fewer than two thirds of the columns (rows).  A crop box is         *)
(* <<left, upper, right, lower>> and holds the pixels (x, y) with          *)
(* left <= x < right and upper <= y < lower.                               *)
(***************************************************************************)
\* small side lengths are 1..MaxSide
MaxSide == 4

\* at most MaxPeaks peaks in each direction
MaxPeaks == 2

WideWidth == 900

GapThreshold == 50

DefaultColumnsWide == 4

DefaultColumnsNarrow == 3

DefaultRows == 2

Widths == (1..MaxSide) \cup {WideWidth, WideWidth + 1}

Heights == (1..MaxSide) \cup {GapThreshold + 10}

\* the sets of peaks the projection of n columns (rows) can give
PeakSets(n) ==
    LET cand == {p \in (0..(MaxSide - 1)) \cup {GapThreshold - 1, GapThreshold + 1, 2 * GapThreshold + 5} :
                     p < n}
    IN  {P \in SUBSET cand : Cardinality(P) <= MaxPeaks /\ 3 * Cardinality(P) < 2 * n}

\* the elements of a set of numbers in increasing order (np.where gives them so)
RECURSIVE Sorted(_)
Sorted(P) ==
    IF P = {} THEN <<>>
    ELSE LET m == CHOOSE k \in P : \A q \in P : k <= q
         IN  <<m>> \o Sorted(P \ {m})

\* the boxes of a grid cut at the given column and row splits, row by row
GridBoxes(v_splits, h_splits) ==
    LET nc == Len(v_splits) - 1
        nr == Len(h_splits) - 1
    IN  [k \in 1..(nr * nc) |->
            LET i == (k - 1) \div nc
                j == (k - 1) % nc
            IN  <<v_splits[j + 1], h_splits[i + 1], v_splits[j + 2], h_splits[i + 2]>>]

\* columns that take the narrow default grid at every width
columns_app14_always_narrow(width, vp) ==
    IF Cardinality(vp) > 0 THEN Cardinality(vp) + 1 ELSE DefaultColumnsNarrow

\* app14: columns and rows from the number of peaks, or the default grid
columns_app14(width, vp) ==
    IF Cardinality(vp) > 0 THEN Cardinality(vp) + 1
    ELSE IF width > WideWidth THEN DefaultColumnsWide ELSE DefaultColumnsNarrow

rows_app14(hp) == IF Cardinality(hp) > 0 THEN Cardinality(hp) + 1 ELSE DefaultRows

\* app14: cell_width = width // columns; the cell (row, col) is cropped at
\* (col * cell_width, row * cell_height, (col+1) * cell_width, (row+1) * cell_height)
split_grid_image_dynamic_app14(width, height, vp, hp) ==
    LET ncols == columns_app14(width, vp)
        nrows == rows_app14(hp)
        cell_width == width \div ncols
        cell_height == height \div nrows
    IN  GridBoxes([c \in 1..(ncols + 1) |-> (c - 1) * cell_width],
                  [r \in 1..(nrows + 1) |-> (r - 1) * cell_height])

\* app15: find_boundaries(peaks)
RECURSIVE find_boundaries_from(_, _, _)
find_boundaries_from(peaks, i, prev) ==
    IF i > Len(peaks) THEN <<peaks[Len(peaks)]>>
    ELSE (IF peaks[i] - prev > GapThreshold THEN <<prev>> ELSE <<>>)
         \o find_boundaries_from(peaks, i + 1, peaks[i])

\* a grouping that keeps every peak as a boundary of its own
find_boundaries_every_peak(peaks) == peaks

find_boundaries(peaks) ==
    IF Len(peaks) = 0 THEN <<>> ELSE find_boundaries_from(peaks, 2, peaks[1])

\* app15: [0] + [int(x) for x in np.linspace(0, size, num=n + 2)][1:-1] + [size]
splits_app15(size, n) ==
    [k \in 1..(n + 2) |-> IF k = n + 2 THEN size ELSE ((k - 1) * size) \div (n + 1)]

split_grid_image_dynamic_app15(width, height, vp, hp) ==
    LET v_bounds == find_boundaries(Sorted(vp))
        h_bounds == find_boundaries(Sorted(hp))
    IN  GridBoxes(splits_app15(width, Len(v_bounds)), splits_app15(height, Len(h_bounds)))

GridInit ==
    /\ img_size \in Widths \X Heights
    /\ v_peaks \in PeakSets(img_size[1])
    /\ h_peaks \in PeakSets(img_size[2])
    /\ boxes = <<>>
    /\ grid_pc = "input"
    /\ ParseIdle
    /\ MainIdle
    /\ FetchIdle

SplitApp14 ==
    /\ grid_pc = "input"
    /\ boxes' = split_grid_image_dynamic_app14(img_size[1], img_size[2], v_peaks, h_peaks)
    /\ grid_pc' = "app14"
    /\ UNCHANGED <<img_size, v_peaks, h_peaks, parseVars, mainVars, fetchVars>>

SplitApp15 ==
    /\ grid_pc = "input"
    /\ boxes' = split_grid_image_dynamic_app15(img_size[1], img_size[2], v_peaks, h_peaks)
    /\ grid_pc' = "app15"
    /\ UNCHANGED <<img_size, v_peaks, h_peaks, parseVars, mainVars, fetchVars>>

GridNext == SplitApp14 \/ SplitApp15

SpecGrid == GridInit /\ [][GridNext]_vars

\* the number of boxes that hold the pixel (x, y)
Covering(x, y) ==
    Cardinality({k \in DOMAIN boxes :
                    /\ boxes[k][1] <= x /\ x < boxes[k][3]
                    /\ boxes[k][2] <= y /\ y < boxes[k][4]})

\* C3: the crop boxes of split_grid_image_dynamic tile the image: every pixel
\* of the source lies in exactly one sub-image, whatever the width and height.
C3_BoxesTileImage ==
    grid_pc \in {"app14", "app15"} =>
        \A x \in 0..(img_size[1] - 1), y \in 0..(img_size[2] - 1) : Covering(x, y) = 1

----------------------------------------------------------------------------
(***************************************************************************)
(* Properties of the run of main(), checked under Spec.                    *)
(***************************************************************************)
\* the step is one loop iteration that requested an image
ImageStep == Len(downloaded') = Len(downloaded) + 1

\* the iteration went on to the next image of the same page, in the same call
MovedOn ==
    /\ pc' = pc
    /\ Len(stack') = Len(stack)
    /\ stack'[Len(stack')].idx = Top.idx + 1
    /\ stack'[Len(stack')].images = Top.images

\* C7: no per-item failure halts the run: the loop of a page goes through all
\* of its images, and no image ends the run with an uncaught exception (which
\* would lose the records collected so far).
C7_PerItemFailureNonFatal ==
    /\ pc # "crashed"
    /\ \A k \in DOMAIN stack :
           stack[k].at \in {"call", "return"} => stack[k].idx = Len(stack[k].images) + 1

\* C8: when the answer to an image request is not of an image content type,
\* download_image gives None without raising, the image is not passed to OCR
\* or to the parser, it adds no record, and the loop goes on.
C8_NonImageSkipped ==
    [][(ImageStep /\ stack'[Len(stack')].last.download = "not_image")
       => /\ ~stack'[Len(stack')].last.img
          /\ ocr_calls' = ocr_calls
          /\ parse_calls' = parse_calls
          /\ stack'[Len(stack')].items = Top.items
          /\ MovedOn]_vars

\* the first of two images was answered with a non-image content type
C8_Witness ==
    /\ stack # <<>>
    /\ Len(Top.images) = 2
    /\ Top.idx = 2
    /\ Top.last.download = "not_image"
    /\ ocr_calls = <<>>
    /\ Top.items = <<>>

\* C9: when initialize() returns False, no page is fetched, no image is
\* downloaded or OCR'd, and no file is written: main returns at once.
C9_NoWorkWithoutTesseract ==
    ~tesseract_ok =>
        /\ pc \in {"start", "done"}
        /\ stack = <<>>
        /\ fetched = <<>>
        /\ downloaded = <<>>
        /\ ocr_calls = <<>>
        /\ parse_calls = <<>>
        /\ files = <<>>

\* main has returned because Tesseract could not be initialized
C9_Witness == ~tesseract_ok /\ pc = "done" /\ fetched = <<>> /\ files = <<>>

\* C10: when the OCR engine raises or returns an empty (blank) text, the image
\* is skipped: parse_coupon_data is not called, no record is added, and the
\* loop goes on to the next image.
C10_OcrFailureSkipped ==
    [][(/\ ImageStep
        /\ stack'[Len(stack')].last.img
        /\ \/ stack'[Len(stack')].last.ocr.throws
           \/ Len(Strip(stack'[Len(stack')].last.ocr.text)) = 0)
       => /\ Len(ocr_calls') = Len(ocr_calls) + 1
          /\ parse_calls' = parse_calls
          /\ stack'[Len(stack')].items = Top.items
          /\ MovedOn]_vars

\* the OCR of the first image of a page failed, and the second image was
\* requested after it
C10_Witness ==
    /\ stack # <<>>
    /\ Top.idx = 3
    /\ Len(downloaded) = 2
    /\ ocr_calls = <<downloaded[1]>>
    /\ parse_calls = <<>>
    /\ Top.items = <<>>

----------------------------------------------------------------------------
(***************************************************************************)
(* Properties of the records parse_coupon_data builds, checked under       *)
(* SpecParse.                                                              *)
(***************************************************************************)
\* the characters of a str field
Chars == WordChars \cup WhiteSpace \cup {"$", ".", ",", ":", "-", "&", "'", "|"}

\* a str, as the model holds the fields computed from the text
IsStr(v) == v # None /\ \A i \in DOMAIN v : v[i] \in Chars

\* the fields computed from the OCR text, and those set from the call
TextFields == {"item_brand", "item_description", "discount", "discount_cleaned",
               "count_limit", "item_original_price"}

CallFields == {"scrape_datetime", "article_name", "publish_date", "channel",
               "discount_period", "source_url"}

AgainSurvivingBlocks == SelectSeq(again.blocks, LAMBDA b : ~Rejected(b))

\* C15: the fields discount, discount_cleaned, count_limit,
\* item_original_price and channel of the record of a block depend on the text
\* of that block only: two texts that hold the same block and differ in their
\* other blocks give that block's record the same values of these fields.
C15_FieldsDependOnBlockOnly ==
    parse_pc = "other" =>
        \A j \in DOMAIN data, m \in DOMAIN again.data :
            SurvivingBlocks[j] = AgainSurvivingBlocks[m] =>
                /\ data[j].discount = again.data[m].discount
                /\ data[j].discount_cleaned = again.data[m].discount_cleaned
                /\ data[j].count_limit = again.data[m].count_limit
                /\ data[j].item_original_price = again.data[m].item_original_price
                /\ data[j].channel = again.data[m].channel

\* C16: for a fixed text and a fixed brand catalog, the item_brand of every
\* record is the same whatever the order in which the entries of the catalog
\* are enumerated, also when several entries occur in one block.
C16_BrandIndependentOfOrder ==
    parse_pc = "reordered" =>
        /\ Len(again.data) = Len(data)
        /\ \A j \in DOMAIN data : again.data[j].item_brand = data[j].item_brand

\* the amount with cents at position i of t is followed, after optional
\* whitespace, by OFF or SAVE in any letter case
AmountIsDiscount(t, i) ==
    \/ AmountKeywordEnd(t, i, s_OFF, TRUE) # 0
    \/ AmountKeywordEnd(t, i, s_SAVE, TRUE) # 0

\* C17: the same currency span never fills both discount and
\* item_original_price: a non-empty item_original_price is an amount with
\* cents that is not followed, after optional whitespace, by OFF or SAVE (a
\* text whose only amount is "$5.00 off" has an empty price).
C17_PriceIsNoDiscountSpan ==
    \A k \in DOMAIN data :
        Len(data[k].item_original_price) > 0 =>
            \E i \in 1..Len(text) :
                /\ PriceEnd(text, i) # 0
                /\ SubSeq(text, i, PriceEnd(text, i) - 1) = data[k].item_original_price
                /\ ~AmountIsDiscount(text, i)

\* C18: in a text that holds a marker, every block that produces a record
\* begins at a marker and holds no other marker (it ends just before the next
\* marker or at the end of the text); the text before the first marker is in no
\* block and gives no record.  The markers are taken to be those the code
\* splits at.
C18_BlocksBeginAtMarkers ==
    (parse_pc # "input" /\ \E i \in 1..Len(text) : SplitMarkerEnd(text, i) # 0) =>
        \A j \in DOMAIN SurvivingBlocks :
            LET b == SurvivingBlocks[j]
            IN  /\ SplitMarkerEnd(b, 1) # 0
                /\ \A i \in 2..Len(b) : SplitMarkerEnd(b, i) = 0

\* C19: a block boundary lies at every occurrence of a currency amount
\* followed by OFF or SAVE in any letter case (a block begins there), and the
\* spans that are block markers are the spans the discount extractor matches.
C19_BoundaryAtEveryMarker ==
    parse_pc # "input" =>
        \A i \in 1..Len(text) :
            /\ AmountIsDiscount(text, i) =>
                   \E k \in DOMAIN blocks :
                       /\ AmountIsDiscount(blocks[k], 1)
                       /\ blocks[k] = SubSeq(text, i, i + Len(blocks[k]) - 1)
            /\ (SplitMarkerEnd(text, i) # 0) <=> (DiscountEnd(text, i) # 0)

\* the first token, and the first two tokens, of a text
LeadingTokens(full_text) ==
    LET w == Words(full_text)
    IN  {Join(SubSeq(w, 1, n)) : n \in {m \in {1, 2} : m <= Len(w)}}

\* C20: item_brand is the first success of four strategies, in this order: an
\* exact whole-word case-insensitive catalog match anywhere in the block; the
\* fuzzy match of the block's leading words, when the matcher accepts one; the
\* leading capitalized word; the first one or two whitespace-delimited tokens.
\* A later strategy counts only when every earlier one found nothing.
C20_BrandFirstOfFourStrategies ==
    parse_pc # "input" =>
        \A j \in DOMAIN data :
            LET full_text == Join(block_lines(SurvivingBlocks[j]))
                exact == {b \in known_brands : ExactBrandMatch(b, full_text)}
                query == possible_brand(full_text)
                fuzzy == IF query \in DOMAIN env.fz THEN env.fz[query] ELSE None
                capitalized == capitalized_brand(full_text)
            IN  IF exact # {} THEN data[j].item_brand \in exact
                ELSE IF fuzzy # None THEN data[j].item_brand = fuzzy
                ELSE IF capitalized.found THEN data[j].item_brand = capitalized.group0
                ELSE data[j].item_brand \in LeadingTokens(full_text)

WhitespaceCollapsed(block) == CollapseSpace(Strip(block))

\* C22: a block is rejected exactly when its whitespace-collapsed text is
\* shorter than 10 characters or matches the exclusion pattern (BOOK WITH,
\* TRAVEL, PACKAGE, pure punctuation); every other block gives a record.
C22_RejectedExactlyWhenShortOrExcluded ==
    parse_pc # "input" =>
        Len(data) = Cardinality({k \in DOMAIN blocks :
                        ~(\/ Len(WhitespaceCollapsed(blocks[k])) < 10
                          \/ Excluded(WhitespaceCollapsed(blocks[k])))})

----------------------------------------------------------------------------
(***************************************************************************)
(* Properties of the exported files and of pagination, checked under Spec. *)
(***************************************************************************)
\* the set of the elements of a sequence
Range(q) == {q[i] : i \in DOMAIN q}

\* a file has the header h and every row of it has a value under each name of h
HasColumns(f, h) ==
    /\ f.columns = h
    /\ \A i \in DOMAIN f.rows : DOMAIN f.rows[i] = Range(h)

C14_NoUrlFetchedTwice ==
    \A i, j \in DOMAIN fetched : i # j => fetched[i] # fetched[j]

\* how often character c occurs in s
Count(s, c) == Cardinality({i \in DOMAIN s : s[i] = c})

\* C23: the correction table of the text normalizer is conservative: the
\* digits and currency signs of the OCR output (as in "$10.00" or "Limit 10")
\* are the same after normalization.
C23_CorrectionsKeepDigitsAndCurrency ==
    \A d \in DOMAIN stack :
        LET last == stack[d].last
        IN  (last.img /\ ~last.ocr.throws) =>
                \A c \in Digits \cup {"$"} : Count(last.text, c) = Count(last.ocr.text, c)

\* the records collected so far by the running scrape: the items of the pages
\* on the call stack, the outermost page first
RECURSIVE Collected(_)
Collected(frames) ==
    IF Len(frames) = 0 THEN <<>> ELSE frames[1].items \o Collected(Tail(frames))

IsPrefix(a, b) == Len(a) <= Len(b) /\ SubSeq(b, 1, Len(a)) = a

\* C24: the record sequence is only appended to.  While a scrape runs, a step
\* leaves the records collected so far in place and in order and adds new ones
\* only at the end; the records a step adds are those of the image the loop
\* is at, the loop goes through the images of a page in page order, the records
\* of a following page come after those of the page that links to it, and the
\* sequence returned to main is the one collected.
C24_RecordsOnlyAppended ==
    [][/\ (stack # <<>> /\ stack' # <<>>) =>
            /\ IsPrefix(Collected(stack), Collected(stack'))
            /\ \A n \in (Len(Collected(stack)) + 1)..Len(Collected(stack')) :
                   /\ Len(stack') = Len(stack)
                   /\ Collected(stack')[n].source_url = <<Top.url, Top.idx>>
                   /\ stack'[Len(stack')].idx = Top.idx + 1
            /\ \A d \in DOMAIN stack :
                   d \in DOMAIN stack' => stack'[d].idx >= stack[d].idx
            /\ Len(stack') > Len(stack) => Top.idx > Len(Top.images)
       /\ (stack # <<>> /\ stack' = <<>> /\ pc' # "crashed") => ret' = Collected(stack)
      ]_vars

\* the records of the first page are followed by those of the page it links to
C24_Witness ==
    /\ pc = "save_hot_buys"
    /\ Len(ret) = 2
    /\ ret[1].source_url = <<HotBuysUrl, 1>>
    /\ ret[2].source_url = <<Page2Url, 1>>

(***************************************************************************)
(* get_page with retries (app12.py, app14.py, app11.py), called for one    *)
(* url: SpecFetch.                                                         *)
(***************************************************************************)

\* what one HTTP request comes to: a 200 answer with an HTML or another body,
\* an error status (raise_for_status raises HTTPError), or no answer
\* (requests.get raises ConnectionError or Timeout)
Answers == {"html", "non_html", "http_error", "connection_error"}

\* the requests that raise an exception of requests.exceptions
Raises(a) == a \in {"http_error", "connection_error"}

\* response.text of an answer
PageText(a) == <<"t", "e", "x", "t", ":">> \o <<a>>

\* app12: retries = retries or CONFIG['max_retries']; the callers pass no retries
retries_app12 == max_retries

\* app11: def get_page(url, retries=3); the callers pass no retries
retries_app11 == 3

FetchInit ==
    /\ server \in [1..(max_retries + 1) -> Answers]
    /\ fetch_fn = "none"
    /\ fetch_pc = "call"
    /\ attempt = 0
    /\ sent = 0
    /\ result = <<>>
    /\ ParseIdle
    /\ GridIdle
    /\ MainIdle

\* html = get_page(url): which get_page is called
CallGetPage ==
    /\ fetch_pc = "call"
    /\ fetch_fn' \in {"app12", "app14", "app11"}
    /\ fetch_pc' = "try"
    /\ attempt' = 0
    /\ UNCHANGED <<server, sent, result, parseVars, gridVars, mainVars>>

\* app12: one iteration of `for attempt in range(retries)`: the request
\* returns response.text, or raises; `except Exception` returns None when
\* attempt == retries - 1 and goes on with the next attempt otherwise
AttemptApp12 ==
    /\ fetch_fn = "app12"
    /\ fetch_pc = "try"
    /\ attempt < retries_app12
    /\ sent' = sent + 1
    /\ LET a == server[sent + 1]
       IN  IF ~Raises(a)
           THEN /\ result' = PageText(a)
                /\ fetch_pc' = "returned"
                /\ UNCHANGED attempt
           ELSE IF attempt = retries_app12 - 1
           THEN /\ result' = None
                /\ fetch_pc' = "returned"
                /\ UNCHANGED attempt
           ELSE /\ attempt' = attempt + 1
                /\ UNCHANGED <<result, fetch_pc>>
    /\ UNCHANGED <<server, fetch_fn, parseVars, gridVars, mainVars>>

\* app14: one call get_page(url, retry_count): the request returns res.text
\* for an HTML answer and None for another content type, or raises;
\* `except RequestException` calls get_page(url, retry_count + 1) when
\* retry_count < CONFIG['max_retries'] and returns None otherwise
AttemptApp14 ==
    /\ fetch_fn = "app14"
    /\ fetch_pc = "try"
    /\ sent' = sent + 1
    /\ LET a == server[sent + 1]
       IN  IF a = "html"
           THEN /\ result' = PageText(a)
                /\ fetch_pc' = "returned"
                /\ UNCHANGED attempt
           ELSE IF a = "non_html"
           THEN /\ result' = None
                /\ fetch_pc' = "returned"
                /\ UNCHANGED attempt
           ELSE IF attempt < max_retries
           THEN /\ attempt' = attempt + 1
                /\ UNCHANGED <<result, fetch_pc>>
           ELSE /\ result' = None
                /\ fetch_pc' = "returned"
                /\ UNCHANGED attempt
    /\ UNCHANGED <<server, fetch_fn, parseVars, gridVars, mainVars>>

\* app11: one iteration of `for attempt in range(retries)`: the request
\* returns res.text, or raises and the loop continues; after the last
\* iteration the function returns None
AttemptApp11 ==
    /\ fetch_fn = "app11"
    /\ fetch_pc = "try"
    /\ attempt < retries_app11
    /\ sent' = sent + 1
    /\ LET a == server[sent + 1]
       IN  IF ~Raises(a)
           THEN /\ result' = PageText(a)
                /\ fetch_pc' = "returned"
                /\ UNCHANGED attempt
           ELSE /\ attempt' = attempt + 1
                /\ IF attempt + 1 = retries_app11
                   THEN result' = None /\ fetch_pc' = "returned"
                   ELSE UNCHANGED <<result, fetch_pc>>
    /\ UNCHANGED <<server, fetch_fn, parseVars, gridVars, mainVars>>

FetchNext == CallGetPage \/ AttemptApp12 \/ AttemptApp14 \/ AttemptApp11

SpecFetch == FetchInit /\ [][FetchNext]_vars

(***************************************************************************)
(* Properties of the grids split_grid_image_dynamic cuts, checked under    *)
(* SpecGrid.                                                               *)
(***************************************************************************)

\* the number of boxes in the first row of the grid, and in its first column
ColumnsOf(bs) == Cardinality({k \in DOMAIN bs : bs[k][2] = 0})

RowsOf(bs) == Cardinality({k \in DOMAIN bs : bs[k][1] = 0})

\* the gaps of at least `least` between one peak of P and the next
GapsOver(P, least) ==
    Cardinality({p \in P : \E q \in P :
                    /\ q > p
                    /\ q - p >= least
                    /\ \A r \in P : ~(p < r /\ r < q)})

\* the fewest and the most boundary groups of the peaks P: peaks closer than
\* the gap threshold are in one group, peaks further apart than the threshold
\* are in different groups, and peaks exactly the threshold apart may be either
FewestGroups(P) == IF P = {} THEN 0 ELSE 1 + GapsOver(P, GapThreshold + 1)

MostGroups(P) == IF P = {} THEN 0 ELSE 1 + GapsOver(P, GapThreshold)

C28_CellsRowMajorAndNonEmpty ==
    grid_pc # "input" =>
        /\ \A k, l \in DOMAIN boxes :
               k < l => \/ boxes[k][2] < boxes[l][2]
                        \/ boxes[k][2] = boxes[l][2] /\ boxes[k][1] <= boxes[l][1]
        /\ \A k \in DOMAIN boxes :
               /\ boxes[k][3] - boxes[k][1] >= 1
               /\ boxes[k][4] - boxes[k][2] >= 1

(***************************************************************************)
(* Properties of the pipeline as main() wires it, checked under Spec.      *)
(***************************************************************************)

\* every record the run holds: collected by a page on the call stack,
\* returned to main, or written to a file
AllRecords ==
    Range(Collected(stack)) \cup Range(ret)
        \cup UNION {Range(files[n].rows) : n \in DOMAIN files}

\* C27: in the pipeline as wired, parse_coupon_data only gets the output of
\* extract_text_from_image, whose correction table rewrites every "$", "1"
\* and "0".  The text reaching the segmenter never holds "$", so no marker is
\* found: an OCR'd image adds at most one record, and every record has an
\* empty discount, discount_cleaned and item_original_price.
C27_WiredPipelineFindsNoDiscount ==
    /\ [](/\ \A d \in DOMAIN stack :
                LET last == stack[d].last
                IN  (last.img /\ ~last.ocr.throws) => "$" \notin Range(last.text)
          /\ \A r \in AllRecords :
                r.discount = <<>> /\ r.discount_cleaned = <<>> /\ r.item_original_price = <<>>)
    /\ [][(stack # <<>> /\ stack' # <<>>) =>
              Len(Collected(stack')) <= Len(Collected(stack)) + 1]_vars

\* an OCR output with two markers and a price was parsed into one record
C27_Witness ==
    /\ stack # <<>>
    /\ Top.last.img
    /\ Top.last.ocr = [throws |-> FALSE, text |-> TwoCouponsRaw]
    /\ Len(Top.items) = 1
    /\ Top.items[1].source_url = Top.last.img_url

\* a page on the call stack whose fetch failed: it is at its return and no
\* brand list was loaded for it
FetchFailed(f) == f.at = "return" /\ f.known_brands = {}

\* C30: scrape_images_from_page follows a next-page link only for hot-buy
\* flyers.  For a coupon-book page (is_hot_buy false) exactly one page is
\* fetched whatever links it holds, and when a page fetch fails the function
\* returns an empty list without downloading an image or following a link.
C30_NextPageOnlyForHotBuys ==
    /\ [](/\ \A d \in DOMAIN stack : ~stack[d].is_hot_buy => Len(stack) = 1
          /\ pc = "coupons" =>
                 fetched = IF Top.at = "get_page" THEN <<>> ELSE <<CouponUrl>>
          /\ pc = "save_coupons" => fetched = <<CouponUrl>>
          /\ \A d \in DOMAIN stack :
                 FetchFailed(stack[d]) =>
                     /\ stack[d].items = <<>>
                     /\ stack[d].last = NoImage
                     /\ d = Len(stack))
    /\ [][/\ (stack # <<>> /\ Len(stack') > Len(stack)) =>
                 /\ Top.is_hot_buy
                 /\ stack'[Len(stack')].url = Top.next
          /\ (stack # <<>> /\ stack' # <<>> /\ Top.at = "get_page"
                /\ FetchFailed(stack'[Len(stack')])) =>
                 /\ Len(stack') = Len(stack)
                 /\ downloaded' = downloaded
          /\ (Len(stack) = 1 /\ FetchFailed(Top) /\ stack' = <<>>) => ret' = <<>>
          /\ (Len(stack) > 1 /\ FetchFailed(Top)) =>
                 Collected(stack') = Collected(stack)
         ]_vars

\* a coupon-book page that holds a next link is at its return, and its page
\* is the only one fetched
C30_Witness ==
    /\ pc = "coupons"
    /\ stack # <<>>
    /\ ~Top.is_hot_buy
    /\ Top.next # NoLink
    /\ Top.at = "return"
    /\ Len(fetched) = 1

(***************************************************************************)
(* Properties of get_page, checked under SpecFetch.                        *)
(***************************************************************************)

\* the first n requests for the url all failed: each raised an exception
AllFailed(n) == \A i \in 1..n : server[i] \in {"http_error", "connection_error"}

\* C29: get_page issues at most CONFIG['max_retries'] (3) HTTP requests for
\* one url.  It returns the page text at the first request that succeeds and
\* issues no request after it, it returns None once every attempt has failed,
\* and it never loops or recurses beyond that bound.  (An answer that is not
\* HTML counts neither as a success nor as an exhausted attempt here: app12
\* and app11 return its text, app14 returns None for it at once.)
C29_AtMostMaxRetriesRequests ==
    fetch_fn # "none" =>
        /\ sent <= 3
        /\ (fetch_pc = "returned" /\ result # None) =>
               /\ sent >= 1
               /\ server[sent] \in {"html", "non_html"}
               /\ result = PageText(server[sent])
               /\ AllFailed(sent - 1)
        /\ (fetch_pc = "returned" /\ result = None) =>
               \A i \in 1..sent : server[i] # "html"
        /\ (sent >= 1 /\ server[sent] = "html") => fetch_pc = "returned"
        /\ (sent = 3 /\ AllFailed(3)) => (fetch_pc = "returned" /\ result = None)

====
